---- MODULE Spec2Model ----
(***************************************************************************)
(* Model of agentframework_supervisor.py: module-level selection of the    *)
(* chat client from the environment, the lazily constructed Jira agent /   *)
(* MCP client pair held in two module globals, the supervisor built on top *)
(* of it, and main().  Coroutines run on one asyncio event loop: a task    *)
(* keeps the loop until it suspends on I/O (mcp_client.get_tools() at line *)
(* 72, supervisor.run() at line 164).                                      *)
(***************************************************************************)
EXTENDS Integers, Sequences, FiniteSets, TLC

VARIABLES
    env,            \* os.environ after load_dotenv: a function on the names that are set
    modulePc,       \* "import" | "loaded" | "failed": module-level code, lines 20-42
    importError,    \* exception raised by the module-level code, or None
    client,         \* the module global `client`, or NoClient
    _jira_agent,    \* module global, line 116 (NullRef is Python's None)
    _mcp_client,    \* module global, line 117
    agentObjs,      \* every ChatAgent constructed so far; a reference is an index
    mcpObjs,        \* every MultiServerMCPClient constructed so far; a reference is an index
    callers,        \* the tasks on the event loop
    running,        \* the tasks that hold the event loop: at most one, {} while all are suspended
    pc,             \* per task: the line the coroutine stack is at
    top,            \* per task: the coroutine the task was started with
    frame,          \* per task: local variables of the active coroutines
    result,         \* per task: value returned by its last top-level coroutine
    error,          \* per task: exception its last top-level coroutine raised, or None
    calls,          \* number of top-level coroutines started so far
    gjaReturned,    \* the values get_jira_agent() has returned, in order
    constructFails, \* number of create_jira_mcp_agent() calls that raised
    exited          \* the process has terminated

vars == <<env, modulePc, importError, client, _jira_agent, _mcp_client, agentObjs,
          mcpObjs, callers, running, pc, top, frame, result, error, calls,
          gjaReturned, constructFails, exited>>

----------------------------------------------------------------------------
(* Bounds *)

MaxCalls == 2
NumTasks == 2

----------------------------------------------------------------------------
(* Values *)

None == "<None>"
NullRef == 0
NoClient == [profile |-> None, base_url |-> None, api_key |-> None, model_id |-> None]

EnvNames == {"API_HOST", "AZURE_OPENAI_ENDPOINT", "AZURE_OPENAI_CHAT_DEPLOYMENT",
             "GITHUB_TOKEN", "GITHUB_MODEL", "OLLAMA_ENDPOINT", "OLLAMA_MODEL",
             "OPENAI_API_KEY", "OPENAI_MODEL"}

ProfileVars == EnvNames \ {"API_HOST"}

\* Values API_HOST is given in the runs: the three named hosts, the name of
\* the remaining branch, and a name no branch tests for.
HostValues == {"azure", "github", "ollama", "openai", "bogus"}

\* The value a set profile variable holds: one distinct value per variable.
EnvValue(name) == "$" \o name

Environments ==
    { [n \in S |-> IF n = "API_HOST" THEN h ELSE EnvValue(n)] :
        S \in {T \cup {"API_HOST"} : T \in SUBSET ProfileVars}, h \in HostValues }
    \cup
    { [n \in S |-> EnvValue(n)] : S \in SUBSET ProfileVars }

\* os.getenv(name, default) / os.environ.get(name, default)
getenv(e, name, default) == IF name \in DOMAIN e THEN e[name] ELSE default

\* The environment passed to the mcp-atlassian server, lines 62-66.
mcp_env == [JIRA_URL |-> "", JIRA_USERNAME |-> "XXXXXX", JIRA_API_TOKEN |-> "XXXXX"]

\* What get_tools() can discover.
ToolSets == {{"jira_get_issue"}, {"jira_get_issue", "jira_search"}}

CallKinds == {"main", "create_supervisor_agent", "get_jira_agent"}

----------------------------------------------------------------------------
(* Module-level code: lines 20-42 *)

\* A wrong default: an unset API_HOST falls through to the last branch.
API_HOST_openai_default(e) == getenv(e, "API_HOST", "openai")

\* API_HOST = os.getenv("API_HOST", "github")
API_HOST(e) == getenv(e, "API_HOST", "github")

\* The branch of the if/elif/else chain that runs.
SelectedProfile(e) ==
    IF API_HOST(e) = "azure" THEN "azure"
    ELSE IF API_HOST(e) = "github" THEN "github"
    ELSE IF API_HOST(e) = "ollama" THEN "ollama"
    ELSE "openai"

\* The arguments the selected branch evaluates for OpenAIChatClient(...), or
\* the exception evaluating them raises: None + str is a TypeError (line 25),
\* os.environ[...] of an unset name is a KeyError (line 32).
ClientArgs(e) ==
    CASE SelectedProfile(e) = "azure" ->
            IF getenv(e, "AZURE_OPENAI_ENDPOINT", None) = None
            THEN [err |-> "TypeError", client |-> NoClient]
            ELSE [err |-> None,
                  client |-> [profile |-> "azure",
                              base_url |-> getenv(e, "AZURE_OPENAI_ENDPOINT", None) \o "/openai/v1/",
                              api_key |-> "bearer_token_provider",
                              model_id |-> getenv(e, "AZURE_OPENAI_CHAT_DEPLOYMENT", None)]]
      [] SelectedProfile(e) = "github" ->
            IF "GITHUB_TOKEN" \notin DOMAIN e
            THEN [err |-> "KeyError", client |-> NoClient]
            ELSE [err |-> None,
                  client |-> [profile |-> "github",
                              base_url |-> "https://models.github.ai/inference",
                              api_key |-> e["GITHUB_TOKEN"],
                              model_id |-> getenv(e, "GITHUB_MODEL", "openai/gpt-4o")]]
      [] SelectedProfile(e) = "ollama" ->
            [err |-> None,
             client |-> [profile |-> "ollama",
                         base_url |-> getenv(e, "OLLAMA_ENDPOINT", "http://localhost:11434/v1"),
                         api_key |-> "none",
                         model_id |-> getenv(e, "OLLAMA_MODEL", "llama3.1:latest")]]
      [] OTHER ->
            [err |-> None,
             client |-> [profile |-> "openai",
                         base_url |-> None,
                         api_key |-> getenv(e, "OPENAI_API_KEY", None),
                         model_id |-> getenv(e, "OPENAI_MODEL", "gpt-4o")]]

\* OpenAIChatClient(...) is library code: handed None for the credential or the
\* model it may build the client or raise; with both present it builds it.
OpenAIChatClient(args) ==
    IF args.api_key = None \/ args.model_id = None
    THEN {[err |-> None, client |-> args],
          [err |-> "ServiceInitializationError", client |-> NoClient]}
    ELSE {[err |-> None, client |-> args]}

Import ==
    /\ modulePc = "import"
    /\ LET a == ClientArgs(env) IN
         IF a.err # None
         THEN /\ modulePc' = "failed"
              /\ importError' = a.err
              /\ client' = NoClient
         ELSE \E r \in OpenAIChatClient(a.client) :
                /\ modulePc' = IF r.err = None THEN "loaded" ELSE "failed"
                /\ importError' = r.err
                /\ client' = r.client
    /\ UNCHANGED <<env, _jira_agent, _mcp_client, agentObjs, mcpObjs, callers, running,
                   pc, top, frame, result, error, calls, gjaReturned, constructFails,
                   exited>>

----------------------------------------------------------------------------
(* Coroutines.  Each action is one stretch of straight-line code of one      *)
(* coroutine; pc[t] names the line the task is about to run.                 *)

NoFrame == [mcp_client |-> NullRef, tools |-> {}, cjma_agent |-> NullRef,
            csa_agent |-> NullRef, supervisor |-> NullRef]

\* None of the coroutines catches anything: an exception unwinds every frame
\* of the task and reaches whoever started the top-level coroutine.
Raise(t, exc) ==
    /\ pc' = [pc EXCEPT ![t] = "idle"]
    /\ error' = [error EXCEPT ![t] = exc]
    /\ frame' = [frame EXCEPT ![t] = NoFrame]
    /\ running' = {}

\* A top-level coroutine returns value v.
Return(t, v) ==
    /\ pc' = [pc EXCEPT ![t] = "idle"]
    /\ result' = [result EXCEPT ![t] = v]
    /\ frame' = [frame EXCEPT ![t] = NoFrame]
    /\ running' = {}

Goto(t, label) == pc' = [pc EXCEPT ![t] = label]

Entry(kind) ==
    CASE kind = "main" -> "main_157"
      [] kind = "create_supervisor_agent" -> "csa_136"
      [] kind = "get_jira_agent" -> "gja_123"

\* The event loop starts a top-level coroutine on an idle task:
\* asyncio.run(main()) at line 169, or a caller of the module's coroutines.
Call(t, kind) ==
    /\ modulePc = "loaded" /\ ~exited
    /\ running = {} /\ pc[t] = "idle"
    /\ calls < MaxCalls
    /\ calls' = calls + 1
    /\ running' = {t}
    /\ top' = [top EXCEPT ![t] = kind]
    /\ Goto(t, Entry(kind))
    /\ error' = [error EXCEPT ![t] = None]
    /\ result' = [result EXCEPT ![t] = NullRef]
    /\ UNCHANGED <<env, modulePc, importError, client, _jira_agent, _mcp_client,
                   agentObjs, mcpObjs, callers, frame, gjaReturned, constructFails,
                   exited>>

\* main, line 157: supervisor = await create_supervisor_agent()
main_create(t) ==
    /\ running = {t} /\ pc[t] = "main_157"
    /\ Goto(t, "csa_136")
    /\ UNCHANGED <<env, modulePc, importError, client, _jira_agent, _mcp_client,
                   agentObjs, mcpObjs, callers, running, top, frame, result, error,
                   calls, gjaReturned, constructFails, exited>>

\* create_supervisor_agent, line 136: jira_agent = await get_jira_agent()
csa_get(t) ==
    /\ running = {t} /\ pc[t] = "csa_136"
    /\ Goto(t, "gja_123")
    /\ UNCHANGED <<env, modulePc, importError, client, _jira_agent, _mcp_client,
                   agentObjs, mcpObjs, callers, running, top, frame, result, error,
                   calls, gjaReturned, constructFails, exited>>

\* The test of line 123 dropped: every call constructs.
gja_check_always_construct(t) ==
    /\ running = {t} /\ pc[t] = "gja_123"
    /\ Goto(t, "cjma_85")
    /\ UNCHANGED <<env, modulePc, importError, client, _jira_agent, _mcp_client,
                   agentObjs, mcpObjs, callers, running, top, frame, result, error,
                   calls, gjaReturned, constructFails, exited>>

\* get_jira_agent, line 123: if _jira_agent is None
gja_check(t) ==
    /\ running = {t} /\ pc[t] = "gja_123"
    /\ Goto(t, IF _jira_agent = NullRef THEN "cjma_85" ELSE "gja_126")
    /\ UNCHANGED <<env, modulePc, importError, client, _jira_agent, _mcp_client,
                   agentObjs, mcpObjs, callers, running, top, frame, result, error,
                   calls, gjaReturned, constructFails, exited>>

\* create_jira_mcp_agent, line 85: await create_mcp_client()
cjma_call(t) ==
    /\ running = {t} /\ pc[t] = "cjma_85"
    /\ Goto(t, "cmc_52")
    /\ UNCHANGED <<env, modulePc, importError, client, _jira_agent, _mcp_client,
                   agentObjs, mcpObjs, callers, running, top, frame, result, error,
                   calls, gjaReturned, constructFails, exited>>

\* create_mcp_client, lines 52-69: mcp_client = MultiServerMCPClient({...})
cmc_construct(t) ==
    /\ running = {t} /\ pc[t] = "cmc_52"
    /\ mcpObjs' = Append(mcpObjs, [env |-> mcp_env, state |-> "created", tools |-> {}])
    /\ frame' = [frame EXCEPT ![t].mcp_client = Len(mcpObjs) + 1]
    /\ Goto(t, "cmc_72")
    /\ UNCHANGED <<env, modulePc, importError, client, _jira_agent, _mcp_client,
                   agentObjs, callers, running, top, result, error, calls,
                   gjaReturned, constructFails, exited>>

\* create_mcp_client, line 72: tools = await mcp_client.get_tools().  The call
\* starts the server and the task suspends until discovery answers.
cmc_get_tools(t) ==
    /\ running = {t} /\ pc[t] = "cmc_72"
    /\ mcpObjs' = [mcpObjs EXCEPT ![frame[t].mcp_client].state = "connecting"]
    /\ running' = {}
    /\ Goto(t, "cmc_72_wait")
    /\ UNCHANGED <<env, modulePc, importError, client, _jira_agent, _mcp_client,
                   agentObjs, callers, top, frame, result, error, calls,
                   gjaReturned, constructFails, exited>>

\* get_tools() answers: lines 72-76 log the tools and return (tools, mcp_client).
cmc_tools_ok(t) ==
    /\ running = {} /\ pc[t] = "cmc_72_wait" /\ ~exited
    /\ \E ts \in ToolSets :
         /\ mcpObjs' = [mcpObjs EXCEPT ![frame[t].mcp_client].state = "open",
                                       ![frame[t].mcp_client].tools = ts]
         /\ frame' = [frame EXCEPT ![t].tools = ts]
    /\ running' = {t}
    /\ Goto(t, "cjma_87")
    /\ UNCHANGED <<env, modulePc, importError, client, _jira_agent, _mcp_client,
                   agentObjs, callers, top, result, error, calls, gjaReturned,
                   constructFails, exited>>

\* get_tools() raises: the transport could not be established.
cmc_tools_fail(t) ==
    /\ running = {} /\ pc[t] = "cmc_72_wait" /\ ~exited
    /\ mcpObjs' = [mcpObjs EXCEPT ![frame[t].mcp_client].state = "failed"]
    /\ constructFails' = constructFails + 1
    /\ Raise(t, "ConnectionError")
    /\ UNCHANGED <<env, modulePc, importError, client, _jira_agent, _mcp_client,
                   agentObjs, callers, top, result, calls, gjaReturned, exited>>

\* ChatAgent(...) is library code: it builds the agent or raises.
ChatAgent(name, tools, agents) ==
    [name |-> name, chat_client |-> client, tools |-> tools, agents |-> agents]

\* lines 87-111: ChatAgent(chat_client=client, ..., name="MCP Jira Agent", tools=jira_tools)
JiraAgent(t) == ChatAgent("MCP Jira Agent", frame[t].tools, <<>>)

\* create_jira_mcp_agent, lines 87-113: jira_agent = ChatAgent(..., tools=jira_tools);
\* return jira_agent, mcp_client
cjma_agent(t) ==
    /\ running = {t} /\ pc[t] = "cjma_87"
    /\ \/ /\ agentObjs' = Append(agentObjs, JiraAgent(t))
          /\ frame' = [frame EXCEPT ![t].cjma_agent = Len(agentObjs) + 1]
          /\ Goto(t, "gja_124")
          /\ UNCHANGED <<running, error, constructFails>>
       \/ /\ constructFails' = constructFails + 1
          /\ Raise(t, "AgentInitializationError")
          /\ UNCHANGED agentObjs
    /\ UNCHANGED <<env, modulePc, importError, client, _jira_agent, _mcp_client,
                   mcpObjs, callers, top, result, calls, gjaReturned, exited>>

\* Only the agent is stored; the client reference is dropped.
gja_assign_agent_only(t) ==
    /\ running = {t} /\ pc[t] = "gja_124"
    /\ _jira_agent' = frame[t].cjma_agent
    /\ Goto(t, "gja_126")
    /\ UNCHANGED <<env, modulePc, importError, client, _mcp_client, agentObjs, mcpObjs,
                   callers, running, top, frame, result, error, calls, gjaReturned,
                   constructFails, exited>>

\* get_jira_agent, line 124: _jira_agent, _mcp_client = <the pair returned>
gja_assign(t) ==
    /\ running = {t} /\ pc[t] = "gja_124"
    /\ _jira_agent' = frame[t].cjma_agent
    /\ _mcp_client' = frame[t].mcp_client
    /\ Goto(t, "gja_126")
    /\ UNCHANGED <<env, modulePc, importError, client, agentObjs, mcpObjs, callers,
                   running, top, frame, result, error, calls, gjaReturned,
                   constructFails, exited>>

\* get_jira_agent, line 126: return _jira_agent, to the event loop's caller or
\* into create_supervisor_agent's local jira_agent (line 136).
gja_return(t) ==
    /\ running = {t} /\ pc[t] = "gja_126"
    /\ gjaReturned' = Append(gjaReturned, _jira_agent)
    /\ IF top[t] = "get_jira_agent"
       THEN /\ Return(t, _jira_agent)
       ELSE /\ frame' = [frame EXCEPT ![t].csa_agent = _jira_agent]
            /\ Goto(t, "csa_138")
            /\ UNCHANGED <<running, result>>
    /\ UNCHANGED <<env, modulePc, importError, client, _jira_agent, _mcp_client,
                   agentObjs, mcpObjs, callers, top, error, calls, constructFails,
                   exited>>

\* The supervisor is handed the sub-agent's tools as well.
SupervisorAgent_with_tools(t) ==
    ChatAgent("Supervisor Agent", agentObjs[frame[t].csa_agent].tools,
              <<frame[t].csa_agent>>)

\* lines 138-150: ChatAgent(chat_client=client, ..., name="Supervisor Agent", agents=[jira_agent])
SupervisorAgent(t) == ChatAgent("Supervisor Agent", {}, <<frame[t].csa_agent>>)

\* create_supervisor_agent, lines 138-152: supervisor = ChatAgent(...,
\* agents=[jira_agent]); return supervisor
csa_build(t) ==
    /\ running = {t} /\ pc[t] = "csa_138"
    /\ \/ /\ agentObjs' = Append(agentObjs, SupervisorAgent(t))
          /\ IF top[t] = "create_supervisor_agent"
             THEN Return(t, Len(agentObjs) + 1)
             ELSE /\ frame' = [frame EXCEPT ![t].supervisor = Len(agentObjs) + 1]
                  /\ Goto(t, "main_164")
                  /\ UNCHANGED <<running, result>>
          /\ UNCHANGED error
       \/ /\ Raise(t, "AgentInitializationError")
          /\ UNCHANGED <<agentObjs, result>>
    /\ UNCHANGED <<env, modulePc, importError, client, _jira_agent, _mcp_client,
                   mcpObjs, callers, top, calls, gjaReturned, constructFails, exited>>

\* main, lines 160-164: print, then response = await supervisor.run(...): the
\* task suspends until the run answers.
main_run(t) ==
    /\ running = {t} /\ pc[t] = "main_164"
    /\ running' = {}
    /\ Goto(t, "main_164_wait")
    /\ UNCHANGED <<env, modulePc, importError, client, _jira_agent, _mcp_client,
                   agentObjs, mcpObjs, callers, top, frame, result, error, calls,
                   gjaReturned, constructFails, exited>>

\* supervisor.run(...) returns: line 165 prints response.text and main returns None.
main_run_ok(t) ==
    /\ running = {} /\ pc[t] = "main_164_wait" /\ ~exited
    /\ Return(t, NullRef)
    /\ UNCHANGED <<env, modulePc, importError, client, _jira_agent, _mcp_client,
                   agentObjs, mcpObjs, callers, top, error, calls, gjaReturned,
                   constructFails, exited>>

\* supervisor.run(...) raises.
main_run_fail(t) ==
    /\ running = {} /\ pc[t] = "main_164_wait" /\ ~exited
    /\ Raise(t, "BackendError")
    /\ UNCHANGED <<env, modulePc, importError, client, _jira_agent, _mcp_client,
                   agentObjs, mcpObjs, callers, top, result, calls, gjaReturned,
                   constructFails, exited>>

\* The interpreter ends: the module-level code raised, or asyncio.run returned
\* or raised and line 169 was the last statement.  Nothing runs before it.
ProcessExit ==
    /\ ~exited
    /\ \/ modulePc = "failed"
       \/ modulePc = "loaded" /\ calls > 0 /\ running = {} /\ \A t \in callers : pc[t] = "idle"
    /\ exited' = TRUE
    /\ UNCHANGED <<env, modulePc, importError, client, _jira_agent, _mcp_client,
                   agentObjs, mcpObjs, callers, running, pc, top, frame, result,
                   error, calls, gjaReturned, constructFails>>

----------------------------------------------------------------------------
(* Specifications *)

TaskIds == 1 .. NumTasks

InitState(e, cs) ==
    /\ env = e
    /\ modulePc = "import"
    /\ importError = None
    /\ client = NoClient
    /\ _jira_agent = NullRef
    /\ _mcp_client = NullRef
    /\ agentObjs = <<>>
    /\ mcpObjs = <<>>
    /\ callers = cs
    /\ running = {}
    /\ pc = [t \in cs |-> "idle"]
    /\ top = [t \in cs |-> None]
    /\ frame = [t \in cs |-> NoFrame]
    /\ result = [t \in cs |-> NullRef]
    /\ error = [t \in cs |-> None]
    /\ calls = 0
    /\ gjaReturned = <<>>
    /\ constructFails = 0
    /\ exited = FALSE

\* Environments under which concurrent callers are explored: every profile
\* variable set or none of them, API_HOST any value or unset.
ConcEnvironments ==
    {e \in Environments : ProfileVars \subseteq DOMAIN e \/ DOMAIN e \cap ProfileVars = {}}

\* One task: the top-level coroutines run one after the other.
Init == \E e \in Environments : InitState(e, {1})

\* Several tasks on the same event loop.
ConcInit == \E e \in ConcEnvironments : InitState(e, TaskIds)

Next ==
    \/ Import
    \/ \E t \in callers :
         \/ \E kind \in CallKinds : Call(t, kind)
         \/ main_create(t)
         \/ csa_get(t)
         \/ gja_check(t)
         \/ cjma_call(t)
         \/ cmc_construct(t)
         \/ cmc_get_tools(t)
         \/ cmc_tools_ok(t)
         \/ cmc_tools_fail(t)
         \/ cjma_agent(t)
         \/ gja_assign(t)
         \/ gja_return(t)
         \/ csa_build(t)
         \/ main_run(t)
         \/ main_run_ok(t)
         \/ main_run_fail(t)
    \/ ProcessExit

Spec == Init /\ [][Next]_vars

ConcSpec == ConcInit /\ [][Next]_vars

----------------------------------------------------------------------------
(* Properties *)

Built(objs, i) == i \in DOMAIN objs

\* Connections that were attempted: get_tools() was called on the client.
Attempted == {i \in DOMAIN mcpObjs : mcpObjs[i].state # "created"}

\* Connections that are established and were not closed.
OpenConnections == {i \in DOMAIN mcpObjs : mcpObjs[i].state = "open"}

\* C1: for any interleaving of concurrent get_jira_agent() calls,
\* create_mcp_client() runs at most once, so at most one MCP client and one
\* connection are ever created and every caller receives the same agent.
C1_SingleConstruction ==
    /\ Len(mcpObjs) <= 1
    /\ \A i, j \in DOMAIN gjaReturned : gjaReturned[i] = gjaReturned[j]

\* C2: the process never terminates with an established MCP connection that
\* was not closed, whichever way main() or any other coroutine ended.
C2_ReleasedAtExit == exited => OpenConnections = {}

\* C3: a tool-source configuration with a required parameter (base URL,
\* username, API token) absent or empty never reaches get_tools(): no
\* connection is attempted for it and the call fails with ConfigurationError.
ConfigComplete(cfg) ==
    /\ cfg.JIRA_URL # ""
    /\ cfg.JIRA_USERNAME # ""
    /\ cfg.JIRA_API_TOKEN # ""

C3_NoAttemptOnIncompleteConfig ==
    \A i \in DOMAIN mcpObjs : ~ConfigComplete(mcpObjs[i].env) => i \notin Attempted

\* C5: an API_HOST value that names no supported provider profile makes the
\* module-level construction fail with ConfigurationError, and no client is
\* constructed.
SupportedHosts == {"azure", "github", "ollama", "openai"}

HostOf(e) == IF "API_HOST" \in DOMAIN e THEN e["API_HOST"] ELSE "github"

C5_UnsupportedHostRejected ==
    (modulePc # "import" /\ HostOf(env) \notin SupportedHosts)
        => (importError = "ConfigurationError" /\ client = NoClient)

\* C6: when a parameter the selected profile requires is missing from the
\* environment, construction fails with ConfigurationError and no client is
\* produced.
RequiredVars(host) ==
    CASE host = "azure" -> {"AZURE_OPENAI_ENDPOINT", "AZURE_OPENAI_CHAT_DEPLOYMENT"}
      [] host = "github" -> {"GITHUB_TOKEN"}
      [] host = "ollama" -> {}
      [] OTHER -> {"OPENAI_API_KEY"}

C6_MissingParameterRejected ==
    (modulePc # "import" /\ ~(RequiredVars(HostOf(env)) \subseteq DOMAIN env))
        => (importError = "ConfigurationError" /\ client = NoClient)

\* The client each value of API_HOST stands for, with that profile's
\* parameters and defaults only.
ProfileClient(e) ==
    CASE HostOf(e) = "azure" ->
            [profile |-> "azure",
             base_url |-> getenv(e, "AZURE_OPENAI_ENDPOINT", "") \o "/openai/v1/",
             api_key |-> "bearer_token_provider",
             model_id |-> getenv(e, "AZURE_OPENAI_CHAT_DEPLOYMENT", None)]
      [] HostOf(e) = "github" ->
            [profile |-> "github",
             base_url |-> "https://models.github.ai/inference",
             api_key |-> getenv(e, "GITHUB_TOKEN", None),
             model_id |-> getenv(e, "GITHUB_MODEL", "openai/gpt-4o")]
      [] HostOf(e) = "ollama" ->
            [profile |-> "ollama",
             base_url |-> getenv(e, "OLLAMA_ENDPOINT", "http://localhost:11434/v1"),
             api_key |-> "none",
             model_id |-> getenv(e, "OLLAMA_MODEL", "llama3.1:latest")]
      [] OTHER ->
            [profile |-> "openai",
             base_url |-> None,
             api_key |-> getenv(e, "OPENAI_API_KEY", None),
             model_id |-> getenv(e, "OPENAI_MODEL", "gpt-4o")]

\* C7, as stated: for every value of API_HOST, once the module-level code has
\* run exactly one client has been constructed, and it is the selected
\* profile's client.
C7_AlwaysOneClient ==
    modulePc # "import" => (client # NoClient /\ client = ProfileClient(env))

\* C7, amended: for every value of API_HOST exactly one profile is selected;
\* when the module-level code completes without raising, the one client it
\* constructed is the selected profile's client; when it raises, no client
\* exists; it raises KeyError for github without GITHUB_TOKEN and TypeError
\* for azure without AZURE_OPENAI_ENDPOINT.
C7_ProfileSelection ==
    /\ modulePc = "loaded" => (client # NoClient /\ client = ProfileClient(env))
    /\ modulePc = "failed" => (client = NoClient /\ importError # None)
    /\ modulePc # "import" =>
         /\ (HostOf(env) = "github" /\ "GITHUB_TOKEN" \notin DOMAIN env)
              => importError = "KeyError"
         /\ (HostOf(env) = "azure" /\ "AZURE_OPENAI_ENDPOINT" \notin DOMAIN env)
              => importError = "TypeError"

\* API_HOST unset and GITHUB_MODEL unset: the github client with the default model.
C7_Witness ==
    /\ modulePc = "loaded"
    /\ "API_HOST" \notin DOMAIN env /\ "GITHUB_MODEL" \notin DOMAIN env
    /\ client.profile = "github" /\ client.model_id = "openai/gpt-4o"

\* C8: in a sequence of get_jira_agent() / create_supervisor_agent() calls
\* whose first construction succeeded, create_mcp_client() has run exactly
\* once, one connection was attempted, and every get_jira_agent() call
\* returned the one agent held in _jira_agent.
C8_DiscoverOnce ==
    constructFails = 0 =>
        /\ Len(mcpObjs) <= 1
        /\ Cardinality(Attempted) <= 1
        /\ Len(gjaReturned) > 0 =>
             /\ Len(mcpObjs) = 1
             /\ _jira_agent # NullRef
             /\ \A i \in DOMAIN gjaReturned : gjaReturned[i] = _jira_agent

\* Two calls have returned and discovery ran once.
C8_Witness ==
    /\ constructFails = 0
    /\ Len(gjaReturned) >= 2
    /\ Len(mcpObjs) = 1

\* C9: every supervisor holds no tool and exactly one nested agent, the Jira
\* agent; tools are held by Jira agents only, which hold the tools their
\* discovery returned and no nested agent; no agent changes once constructed.
C9_CapabilitySets ==
    \A i \in DOMAIN agentObjs :
        LET a == agentObjs[i] IN
        /\ a.name \in {"Supervisor Agent", "MCP Jira Agent"}
        /\ a.name = "Supervisor Agent" =>
             /\ a.tools = {}
             /\ Len(a.agents) = 1
             /\ Built(agentObjs, a.agents[1])
             /\ agentObjs[a.agents[1]].name = "MCP Jira Agent"
        /\ a.name = "MCP Jira Agent" =>
             /\ a.agents = <<>>
             /\ \E j \in DOMAIN mcpObjs : mcpObjs[j].state = "open" /\ a.tools = mcpObjs[j].tools
        /\ a.tools # {} => a.name = "MCP Jira Agent"

C9_Frozen ==
    \A i \in DOMAIN agentObjs : Built(agentObjs', i) /\ agentObjs'[i] = agentObjs[i]

C9_SupervisorDelegatesOnly == []C9_CapabilitySets /\ [][C9_Frozen]_vars

\* A supervisor exists over a Jira agent that holds discovered tools.
C9_Witness ==
    \E i \in DOMAIN agentObjs :
        /\ agentObjs[i].name = "Supervisor Agent"
        /\ agentObjs[agentObjs[i].agents[1]].tools # {}

\* C10: _jira_agent is None exactly when _mcp_client is None; a
\* create_jira_mcp_agent() that raises leaves both at None, and the next test
\* of line 123 then constructs again.
C10_BothOrNeither == (_jira_agent = NullRef) <=> (_mcp_client = NullRef)

C10_FailureLeavesNone ==
    constructFails' > constructFails =>
        /\ UNCHANGED <<_jira_agent, _mcp_client>>
        /\ _jira_agent' = NullRef /\ _mcp_client' = NullRef

C10_RetryWhenNone ==
    \A t \in callers :
        (pc[t] = "gja_123" /\ pc'[t] # "gja_123" /\ _jira_agent = NullRef)
            => pc'[t] = "cjma_85"

====
